---- MODULE Spec2Model ----
(***************************************************************************)
(* PaySlipsAgent: the upload / review / process / retry pipeline of        *)
(* app.py with the splitter (pdf_processor.py), the dispatcher             *)
(* (email_sender.py), the Record entity (payslip_parser.py) and the        *)
(* SQLite bookkeeping (database.py).                                       *)
(*                                                                         *)
(* Text is modelled as a sequence of one-character strings, so that        *)
(* formatting and sanitising are computed character by character.          *)
(* Python's None is NoVal for text (NoInt for an integer, NoPath for a     *)
(* path), the empty string is <<>>.  Every request                         *)
(* handler is one atomic action; what the environment decides (what the    *)
(* extractor read, what the operator typed, whether the disk or the SMTP   *)
(* server fails) is chosen with \E.                                        *)
(***************************************************************************)
EXTENDS Integers, Sequences, FiniteSets, TLC

VARIABLES
    sessions,     \* app._sessions: session id -> [payslips]
    nextSession,  \* number of session ids handed out so far (uuid4 never repeats)
    employees,    \* table employees, row id = position
    batches,      \* table payslip_batches, row id = position
    records,      \* table payslip_records, row id = position
    disk,         \* artifact files under OUTPUT_FOLDER: path -> content
    mail,         \* log of the mail transport's invocations, oldest first
    origin,       \* history: batch id -> [via, session] of the request that made it
    response,     \* history: what happened last and how it ended
    probe,        \* a library function called on its own: [fn, input, output]
    workdirs      \* working directories under UPLOAD_FOLDER while the steps of an
                  \* upload are followed one by one: session id -> [stage, payslips,
                  \* pages, cached, readers, serving]

vars == <<sessions, nextSession, employees, batches, records, disk, mail, origin, response, probe,
          workdirs>>

-----------------------------------------------------------------------------
(* Bounds *)

MaxPages == 2      \* pages of one uploaded document
MaxRecords == 2    \* rows of payslip_records
MaxSessions == 1   \* session ids handed out by upload
MaxMail == 2       \* invocations of the mail transport
MaxItems == 3      \* length of a list handed to a library function called on its own
MaxRequests == 2   \* page_preview requests in flight for one session
MaxBatches == 2    \* batches opened by programmatic uploads of documents without pages

-----------------------------------------------------------------------------
(* Values *)

NoVal == <<"None">>
NoInt == -1
NoPath == [dir |-> 0, file |-> <<>>]

\* Python truthiness of an optional string and of an optional integer.
Truthy(v) == v # NoVal /\ v # <<>>
TruthyInt(n) == n # NoInt /\ n # 0

Or(a, b) == IF Truthy(a) THEN a ELSE b

Name1 == <<"d", "n", "a">>
Name2 == <<"n", "o", "a">>
Id1 == <<"1", "2", "3", "4", "5">>
Id2 == <<"6", "7", "8", "9", "0">>
Email1 == <<"d", "@", "x">>

DigitChars == <<"0", "1", "2", "3", "4", "5", "6", "7", "8", "9">>

RECURSIVE Str(_)
Str(n) == IF n < 10 THEN <<DigitChars[n + 1]>> ELSE Str(n \div 10) \o <<DigitChars[(n % 10) + 1]>>

-----------------------------------------------------------------------------
(* payslip_parser.py *)

HEBREW_MONTHS ==
    [m \in 1..12 |->
        CASE m = 1 -> <<"y", "n", "w", "a", "r">>
          [] m = 2 -> <<"p", "b", "r", "w", "a", "r">>
          [] m = 3 -> <<"m", "r", "z">>
          [] m = 4 -> <<"a", "p", "r", "y", "l">>
          [] m = 5 -> <<"m", "a", "y">>
          [] m = 6 -> <<"y", "w", "n", "y">>
          [] m = 7 -> <<"y", "w", "l", "y">>
          [] m = 8 -> <<"a", "w", "g", "w", "s", "t">>
          [] m = 9 -> <<"s", "p", "t", "m", "b", "r">>
          [] m = 10 -> <<"a", "w", "q", "t", "w", "b", "r">>
          [] m = 11 -> <<"n", "w", "b", "m", "b", "r">>
          [] OTHER -> <<"d", "z", "m", "b", "r">>]

MonthName(month) == IF month \in DOMAIN HEBREW_MONTHS THEN HEBREW_MONTHS[month] ELSE Str(month)

_format_filename_NoYearOnly(name, month, year) ==
    IF TruthyInt(month) /\ TruthyInt(year)
    THEN name \o <<" ", "-", " ">> \o MonthName(month) \o <<" ">> \o Str(year)
    ELSE name

_format_filename(name, month, year) ==
    IF TruthyInt(month) /\ TruthyInt(year)
    THEN name \o <<" ", "-", " ">> \o MonthName(month) \o <<" ">> \o Str(year)
    ELSE IF TruthyInt(year)
         THEN name \o <<" ", "-", " ">> \o Str(year)
         ELSE name

EmployeePayslip(page_number, name, employee_id, email, month, year) ==
    [page_number |-> page_number, name |-> name, employee_id |-> employee_id,
     email |-> email, month |-> month, year |-> year]

PagePlaceholder(page_number) ==
    <<"e", "m", "p", "l", "o", "y", "e", "e", "_", "p", "a", "g", "e", "_">> \o Str(page_number + 1)

filename(ps) == _format_filename(Or(ps.name, PagePlaceholder(ps.page_number)), ps.month, ps.year)

is_valid(ps) == Truthy(ps.name) /\ Truthy(ps.employee_id)

\* _parse_month_year, line 91: the month names mapped back to their numbers.
hebrew_to_num(g1) ==
    IF \E m \in DOMAIN HEBREW_MONTHS : HEBREW_MONTHS[m] = g1
    THEN CHOOSE m \in DOMAIN HEBREW_MONTHS : HEBREW_MONTHS[m] = g1
    ELSE NoInt

\* PERIOD_PATTERNS, lines 69-76, in the order they are tried.
PERIOD_PATTERNS == <<"label_numeric", "label_month_name", "bare_numeric">>

\* The result of re.search for a pattern that does not occur in the text.
NoMatch == [g1 |-> <<>>, g2 |-> <<>>]

NoPeriod == [month |-> NoInt, year |-> NoInt]

-----------------------------------------------------------------------------
(* pdf_processor.py *)

AlnumChars ==
    {"a", "b", "d", "e", "g", "l", "m", "n", "o", "p", "q", "r", "s", "t", "w", "x", "y", "z",
     "0", "1", "2", "3", "4", "5", "6", "7", "8", "9"}

KeptChars == {" ", "-", "_", "."}

SanitizeChar(ch) == IF ch \in AlnumChars \/ ch \in KeptChars THEN ch ELSE "_"

RECURSIVE Strip(_)
Strip(s) ==
    IF s = <<>> THEN s
    ELSE IF Head(s) = " " THEN Strip(Tail(s))
    ELSE IF s[Len(s)] = " " THEN Strip(SubSeq(s, 1, Len(s) - 1))
    ELSE s

_sanitize_filename(name) == Strip([k \in 1..Len(name) |-> SanitizeChar(name[k])])

OutputFilename(ps) == _sanitize_filename(filename(ps)) \o <<".", "p", "d", "f">>

OutputPath(output_dir, output_filename) == [dir |-> output_dir, file |-> output_filename]

SkipPage_OffByOne(page_idx, source_pages) == page_idx > source_pages

\* line 49: if page_idx >= len(source.pages): continue
SkipPage(page_idx, source_pages) == page_idx >= source_pages

SplitItem(ps, output_dir) ==
    [filename |-> OutputFilename(ps),
     path |-> OutputPath(output_dir, OutputFilename(ps)),
     payslip |-> ps]

\* The result list of split_and_encrypt when nothing raises.
split_and_encrypt(payslips, output_dir, source_pages) ==
    LET kept == SelectSeq(payslips, LAMBDA ps : ~SkipPage(ps.page_number, source_pages))
    IN  [k \in 1..Len(kept) |-> SplitItem(kept[k], output_dir)]

\* What dest.save leaves at the item's path: the page, locked with the user password.
Artifact(item) ==
    [page |-> item.payslip.page_number, user |-> Or(item.payslip.employee_id, <<>>)]

SaveArtifact(d, item) ==
    [p \in DOMAIN d \cup {item.path} |-> IF p = item.path THEN Artifact(item) ELSE d[p]]

\* The disk after the first n items of the result list were saved, in order.
RECURSIVE SaveAll(_, _, _)
SaveAll(d, items, n) ==
    IF n = 0 THEN d ELSE SaveArtifact(SaveAll(d, items, n - 1), items[n])

\* source.pages[page_idx], line 54: a list index past the end raises.
IndexError(page_idx, source_pages) == page_idx >= source_pages

\* The loop of split_and_encrypt, lines 46-85, from payslip k on: what it
\* returns, what it wrote, and whether an exception left it.
RECURSIVE SplitLoop(_, _, _, _, _)
SplitLoop(payslips, output_dir, source_pages, k, acc) ==
    IF k > Len(payslips) THEN acc
    ELSE LET ps == payslips[k]
         IN  IF SkipPage(ps.page_number, source_pages)
             THEN SplitLoop(payslips, output_dir, source_pages, k + 1, acc)
             ELSE IF IndexError(ps.page_number, source_pages)
             THEN [acc EXCEPT !.raised = TRUE]
             ELSE SplitLoop(payslips, output_dir, source_pages, k + 1,
                            [acc EXCEPT !.results = Append(@, SplitItem(ps, output_dir)),
                                        !.files = SaveArtifact(@, SplitItem(ps, output_dir))])

-----------------------------------------------------------------------------
(* email_sender.py *)

NoEmailError == <<"No email address found in payslip">>
SmtpError == <<"smtp error">>

UnknownName == <<"Unknown">>
UnknownPeriod == <<"l", "a", " ", "y", "d", "w", "e">>
DefaultGreeting == <<"e", "w", "b", "d">>

\* What can happen to one message: delivered, refused by the SMTP exchange
\* (caught, lines 71-80), or the attachment cannot be opened (lines 61-69,
\* outside the try: the exception leaves send_payslip_email).
Fates == {"sent", "smtp_error", "attach_error"}

MailCall(recipient_email, employee_name, period, pdf_path, pdf_filename) ==
    [recipient_email |-> recipient_email, employee_name |-> employee_name,
     period |-> period, pdf_path |-> pdf_path, pdf_filename |-> pdf_filename]

send_payslip_email(call, fate) ==
    IF fate = "attach_error"
    THEN [raised |-> TRUE, calls |-> <<>>, result |-> NoVal]
    ELSE [raised |-> FALSE,
          calls |-> <<call>>,
          result |-> IF fate = "sent"
                     THEN [success |-> TRUE, error |-> NoVal]
                     ELSE [success |-> FALSE, error |-> SmtpError]]

DispatchPeriod(month, year) ==
    IF TruthyInt(month) /\ TruthyInt(year)
    THEN MonthName(month) \o <<" ">> \o Str(year)
    ELSE IF TruthyInt(year) THEN Str(year) ELSE UnknownPeriod

NoEmailResult_MarkedSent(item) ==
    [employee_name |-> Or(item.payslip.name, UnknownName), email |-> NoVal,
     filename |-> item.filename, success |-> TRUE, error |-> NoVal]

NoEmailResult(item) ==
    [employee_name |-> Or(item.payslip.name, UnknownName), email |-> NoVal,
     filename |-> item.filename, success |-> FALSE, error |-> NoEmailError]

SendResult(item, result) ==
    [employee_name |-> Or(item.payslip.name, UnknownName), email |-> item.payslip.email,
     filename |-> item.filename, success |-> result.success, error |-> result.error]

DispatchCall(item) ==
    MailCall(item.payslip.email,
             Or(item.payslip.name, DefaultGreeting),
             DispatchPeriod(item.payslip.month, item.payslip.year),
             item.path,
             item.filename)

\* The loop of send_all_payslips from item k on; acc holds the results
\* collected and the transport invocations made so far.  fates[k] is what
\* happens to item k's message if one is sent.
RECURSIVE SendFrom(_, _, _, _)
SendFrom(processed_files, fates, k, acc) ==
    IF k > Len(processed_files) THEN acc
    ELSE LET item == processed_files[k]
             sent == send_payslip_email(DispatchCall(item), fates[k])
         IN  IF ~Truthy(item.payslip.email)
             THEN SendFrom(processed_files, fates, k + 1,
                           [acc EXCEPT !.results = Append(@, NoEmailResult(item))])
             ELSE IF sent.raised
             THEN [acc EXCEPT !.raised = TRUE]
             ELSE SendFrom(processed_files, fates, k + 1,
                           [acc EXCEPT !.results = Append(@, SendResult(item, sent.result)),
                                       !.calls = @ \o sent.calls])

send_all_payslips(processed_files, fates) ==
    SendFrom(processed_files, fates, 1, [results |-> <<>>, calls |-> <<>>, raised |-> FALSE])

-----------------------------------------------------------------------------
(* database.py *)

Now == <<"now">>

EmployeeRow(employee_id, name, email) ==
    [employee_id |-> employee_id, name |-> name, email |-> email]

EmployeeIdsWith(emps, employee_id) == {i \in DOMAIN emps : emps[i].employee_id = employee_id}

\* SQL COALESCE(?, email): the parameter unless it is NULL.
Coalesce(a, b) == IF a # NoVal THEN a ELSE b

upsert_employee(emps, employee_id, name, email) ==
    IF EmployeeIdsWith(emps, employee_id) # {}
    THEN LET i == CHOOSE j \in EmployeeIdsWith(emps, employee_id) : TRUE
             row == emps[i]
         IN  IF row.name # name \/ (Truthy(email) /\ row.email # email)
             THEN [emps |-> [emps EXCEPT ![i] = EmployeeRow(employee_id, name, Coalesce(email, row.email))],
                   id |-> i]
             ELSE [emps |-> emps, id |-> i]
    ELSE [emps |-> Append(emps, EmployeeRow(employee_id, name, email)), id |-> Len(emps) + 1]

NoEmployee == EmployeeRow(NoVal, NoVal, NoVal)

get_employee_by_tz(emps, employee_id) ==
    IF EmployeeIdsWith(emps, employee_id) # {}
    THEN emps[CHOOSE j \in EmployeeIdsWith(emps, employee_id) : TRUE]
    ELSE NoEmployee

create_batch(bs, total_pages) ==
    Append(bs, [total_pages |-> total_pages, status |-> "processing"])

update_batch_status_AllRows(bs, batch_id, status) ==
    [b \in DOMAIN bs |-> [bs[b] EXCEPT !.status = status]]

update_batch_status(bs, batch_id, status) ==
    [b \in DOMAIN bs |-> IF b = batch_id THEN [bs[b] EXCEPT !.status = status] ELSE bs[b]]

create_payslip_record(recs, batch_id, employee_db_id, ps) ==
    Append(recs,
           [batch_id |-> batch_id, employee_db_id |-> employee_db_id,
            employee_id |-> ps.employee_id, employee_name |-> ps.name,
            employee_email |-> ps.email, month |-> ps.month, year |-> ps.year,
            page_number |-> ps.page_number,
            output_filename |-> NoVal, encrypted_path |-> NoPath,
            email_sent |-> 0, email_sent_at |-> NoVal, email_error |-> NoVal])

update_record_email_status(recs, record_id, sent, error) ==
    [r \in DOMAIN recs |->
        IF r = record_id
        THEN [recs[r] EXCEPT !.email_sent = IF sent THEN 1 ELSE 0,
                             !.email_sent_at = IF sent THEN Now ELSE NoVal,
                             !.email_error = error]
        ELSE recs[r]]

update_record_file_info(recs, record_id, output_filename, encrypted_path) ==
    [r \in DOMAIN recs |->
        IF r = record_id
        THEN [recs[r] EXCEPT !.output_filename = output_filename,
                             !.encrypted_path = encrypted_path]
        ELSE recs[r]]

\* SQL "column = ?": never true when either side is NULL.
SqlEq(column, param) == column # NoVal /\ param # NoVal /\ column = param
SqlEqInt(column, param) == column # NoInt /\ param # NoInt /\ column = param

is_already_processed_AnyPeriod(recs, employee_id, month, year) ==
    \E r \in DOMAIN recs :
        SqlEq(recs[r].employee_id, employee_id) /\ recs[r].email_sent = 1

is_already_processed(recs, employee_id, month, year) ==
    \E r \in DOMAIN recs :
        /\ SqlEq(recs[r].employee_id, employee_id)
        /\ SqlEqInt(recs[r].month, month)
        /\ SqlEqInt(recs[r].year, year)
        /\ recs[r].email_sent = 1

-----------------------------------------------------------------------------
(* app.py: what the environment supplies *)

\* What an extractor can have read on one page: everything; everything but
\* the email; no identity number; or nothing at all (no pattern matched, or
\* the page's vision call failed).
ExtractedPages(page_number) ==
    {EmployeePayslip(page_number, Name1, Id1, Email1, 1, 2024),
     EmployeePayslip(page_number, Name1, Id1, NoVal, 1, 2024),
     EmployeePayslip(page_number, Name1, NoVal, Email1, 1, 2024),
     EmployeePayslip(page_number, NoVal, NoVal, NoVal, NoInt, NoInt)}

\* One Record per page, page_number = position in the document (enumerate).
RECURSIVE Extractions(_)
Extractions(n) ==
    IF n = 0 THEN {<<>>}
    ELSE {Append(ex, p) : ex \in Extractions(n - 1), p \in ExtractedPages(n - 1)}

\* A form field that was not submitted.
Absent == <<"absent">>

FormGet(value, default) == IF value = Absent THEN default ELSE value

FormRow(name, employee_id, email, month, year) ==
    [name |-> name, employee_id |-> employee_id, email |-> email, month |-> month, year |-> year]

\* What the operator can submit for one row: nothing, a new name, every
\* field filled in, or the identity number with the email left blank and a
\* month typed as 13 (lines 232-235 take any digit string).
FormRows ==
    {FormRow(Absent, Absent, Absent, <<>>, <<>>),
     FormRow(Name2, Absent, Absent, <<>>, <<>>),
     FormRow(Name1, Id1, Email1, <<"1">>, <<"2", "0", "2", "5">>),
     FormRow(Absent, Id1, <<>>, <<"1", "3">>, <<>>)}

\* str.isdigit and int() on a digit string.
isdigit(s) == s # <<>> /\ \A k \in 1..Len(s) : \E d \in 1..Len(DigitChars) : DigitChars[d] = s[k]

DigitValue(ch) == (CHOOSE d \in 1..Len(DigitChars) : DigitChars[d] = ch) - 1

RECURSIVE int(_)
int(s) == IF Len(s) = 1 THEN DigitValue(s[1])
          ELSE 10 * int(SubSeq(s, 1, Len(s) - 1)) + DigitValue(s[Len(s)])

\* _parse_month_year, lines 99-112: what one pattern's match yields, a
\* (month, year) pair or NoPeriod when the candidate is rejected.
Candidate(match) ==
    IF isdigit(match.g1)
    THEN IF 1 <= int(match.g1) /\ int(match.g1) <= 12
            /\ 1900 <= int(match.g2) /\ int(match.g2) <= 2100
         THEN [month |-> int(match.g1), year |-> int(match.g2)]
         ELSE NoPeriod
    ELSE IF TruthyInt(hebrew_to_num(match.g1)) /\ isdigit(match.g2)
            /\ 1900 <= int(match.g2) /\ int(match.g2) <= 2100
         THEN [month |-> hebrew_to_num(match.g1), year |-> int(match.g2)]
         ELSE NoPeriod

RECURSIVE PeriodFrom_StopsAtRejected(_, _)
PeriodFrom_StopsAtRejected(matches, k) ==
    IF k > Len(PERIOD_PATTERNS) THEN NoPeriod
    ELSE IF matches[k] = NoMatch THEN PeriodFrom_StopsAtRejected(matches, k + 1)
    ELSE Candidate(matches[k])

\* _parse_month_year, lines 93-114, from pattern k on; matches[k] is the
\* first match of pattern k in the text (re.search), NoMatch if none.
RECURSIVE PeriodFrom(_, _)
PeriodFrom(matches, k) ==
    IF k > Len(PERIOD_PATTERNS) THEN NoPeriod
    ELSE IF matches[k] = NoMatch THEN PeriodFrom(matches, k + 1)
    ELSE IF Candidate(matches[k]) # NoPeriod THEN Candidate(matches[k])
    ELSE PeriodFrom(matches, k + 1)

_parse_month_year(matches) == PeriodFrom(matches, 1)

-----------------------------------------------------------------------------
(* vision_extractor.py *)

\* A value of the JSON object the model replies with.
JNull == [t |-> "null"]
JStr(s) == [t |-> "str", s |-> s]
JInt(n) == [t |-> "int", n |-> n]

\* Python truthiness of a JSON value (data.get(key) as a condition).
JTruthy(v) == (v.t = "str" /\ v.s # <<>>) \/ (v.t = "int" /\ v.n # 0)

\* data.get("name"), data.get("email"): the string, or None.
JGet(v) == IF v.t = "str" THEN v.s ELSE NoVal

\* line 172: str(data["employee_id"]) if data.get("employee_id") else None
CoerceId(v) == IF ~JTruthy(v) THEN NoVal ELSE IF v.t = "str" THEN v.s ELSE Str(v.n)

\* int(x) of lines 174-175 raises ValueError on a string that is no number.
ValueError(v) == JTruthy(v) /\ v.t = "str" /\ ~isdigit(v.s)

\* lines 174-175: int(data[key]) if data.get(key) else None
CoerceInt(v) == IF ~JTruthy(v) THEN NoInt ELSE IF v.t = "int" THEN v.n ELSE int(v.s)

Reply(name, employee_id, email, month, year) ==
    [name |-> name, employee_id |-> employee_id, email |-> email, month |-> month, year |-> year]

\* The dict of lines 168-178.
VisionResult(page_num, data) ==
    [page_number |-> page_num, name |-> JGet(data.name),
     employee_id |-> CoerceId(data.employee_id), email |-> JGet(data.email),
     month |-> CoerceInt(data.month), year |-> CoerceInt(data.year)]

\* The dict of the except branch, lines 183-193.
NullResult(page_num) ==
    [page_number |-> page_num, name |-> NoVal, employee_id |-> NoVal, email |-> NoVal,
     month |-> NoInt, year |-> NoInt]

\* What can go wrong with one page: the API call fails, the reply is not
\* JSON, the JSON is not an object, or the page cannot be rendered.
Faults == {"none", "transport", "malformed_json", "wrong_shape", "render"}

\* Something raises inside the try of lines 134-180.
CallFails(page) ==
    \/ page.fault \in {"transport", "malformed_json", "wrong_shape"}
    \/ ValueError(page.data.month)
    \/ ValueError(page.data.year)

\* _page_to_image_bytes, line 131, is called before the try.
RenderFails(page) == page.fault = "render"

RECURSIVE VisionLoop_StopsAtFailure(_, _, _)
VisionLoop_StopsAtFailure(pages, k, acc) ==
    IF k > Len(pages) THEN acc
    ELSE IF RenderFails(pages[k]) THEN [acc EXCEPT !.raised = TRUE]
    ELSE IF CallFails(pages[k]) THEN [acc EXCEPT !.results = Append(@, NullResult(k - 1))]
    ELSE VisionLoop_StopsAtFailure(pages, k + 1,
                                   [acc EXCEPT !.results = Append(@, VisionResult(k - 1, pages[k].data))])

\* The loop of lines 127-193 from page k on (page_num = k - 1).
RECURSIVE VisionLoop(_, _, _)
VisionLoop(pages, k, acc) ==
    IF k > Len(pages) THEN acc
    ELSE IF RenderFails(pages[k]) THEN [acc EXCEPT !.raised = TRUE]
    ELSE VisionLoop(pages, k + 1,
                    [acc EXCEPT !.results =
                        Append(@, IF CallFails(pages[k]) THEN NullResult(k - 1)
                                  ELSE VisionResult(k - 1, pages[k].data))])

\* A known-mistake table {field: {extracted: corrected}}; a field the table
\* does not name has the empty mapping.
Corrections(name, employee_id, email, month, year) ==
    [name |-> name, employee_id |-> employee_id, email |-> email, month |-> month, year |-> year]

NoCorrections == Corrections(<<>>, <<>>, <<>>, <<>>, <<>>)

\* lines 98-103: if val and val in mapping: entry[field] = mapping[val]
CorrectText(val, mapping) == IF Truthy(val) /\ val \in DOMAIN mapping THEN mapping[val] ELSE val
CorrectInt(val, mapping) == IF TruthyInt(val) /\ val \in DOMAIN mapping THEN mapping[val] ELSE val

apply_corrections(extracted, corrections) ==
    [k \in 1..Len(extracted) |->
        [extracted[k] EXCEPT !.name = CorrectText(@, corrections.name),
                             !.employee_id = CorrectText(@, corrections.employee_id),
                             !.email = CorrectText(@, corrections.email),
                             !.month = CorrectInt(@, corrections.month),
                             !.year = CorrectInt(@, corrections.year)]]

extract_with_vision(pages, corrections) ==
    LET run == VisionLoop(pages, 1, [results |-> <<>>, raised |-> FALSE])
    IN  IF run.raised THEN [results |-> <<>>, raised |-> TRUE]
        ELSE [results |-> apply_corrections(run.results, corrections), raised |-> FALSE]

\* What the model can reply for a page: every field as asked; numbers where
\* strings were asked and strings where numbers were; an identity number
\* with a dash and a period out of range; a month in words; nothing.
Replies ==
    {Reply(JStr(Name1), JStr(Id1), JStr(Email1), JInt(1), JInt(2024)),
     Reply(JStr(Name2), JInt(12345), JNull, JStr(<<"1">>), JStr(<<"2", "0", "2", "4">>)),
     Reply(JStr(Name1), JStr(<<"1", "2", "-", "3">>), JNull, JInt(13), JInt(24)),
     Reply(JStr(Name1), JStr(Id1), JNull, JStr(<<"m", "a", "y">>), JInt(2024)),
     Reply(JNull, JNull, JNull, JNull, JNull)}

HealthyPage == [data |-> Reply(JStr(Name1), JStr(Id1), JStr(Email1), JInt(1), JInt(2024)),
                fault |-> "none"]

VisionPages ==
    {[data |-> data, fault |-> "none"] : data \in Replies}
    \cup {[HealthyPage EXCEPT !.fault = fault] : fault \in Faults}

RECURSIVE VisionDocs(_)
VisionDocs(n) ==
    IF n = 0 THEN {<<>>}
    ELSE {Append(pages, page) : pages \in VisionDocs(n - 1), page \in VisionPages}

-----------------------------------------------------------------------------
(* app.py: helpers of the handlers *)

\* What the last request was and how it ended; ref is the session or record
\* it named (0: none).
Response(op, status, ref) == [op |-> op, status |-> status, ref |-> ref]

\* upload, lines 98-103 and 119-123: fill a missing email from the directory.
BackfillEmail(ps, emps) ==
    IF ~Truthy(ps.email) /\ Truthy(ps.employee_id)
    THEN LET existing == get_employee_by_tz(emps, ps.employee_id)
         IN  IF existing # NoEmployee /\ Truthy(existing.email)
             THEN [ps EXCEPT !.email = existing.email]
             ELSE ps
    ELSE ps

\* process, lines 225-236: the operator's corrections for row i.
ApplyForm(ps, row) ==
    [ps EXCEPT !.name = FormGet(row.name, ps.name),
               !.employee_id = FormGet(row.employee_id, ps.employee_id),
               !.email = FormGet(row.email, ps.email),
               !.month = IF row.month # <<>> /\ isdigit(row.month) THEN int(row.month) ELSE ps.month,
               !.year = IF row.year # <<>> /\ isdigit(row.year) THEN int(row.year) ELSE ps.year]

RECURSIVE ValidationErrors_OnePerPage(_)
ValidationErrors_OnePerPage(payslips) ==
    IF payslips = <<>> THEN <<>>
    ELSE LET ps == Head(payslips)
         IN  (IF ~Truthy(ps.name) THEN <<[page |-> ps.page_number + 1, missing |-> "name"]>>
              ELSE IF ~Truthy(ps.employee_id)
              THEN <<[page |-> ps.page_number + 1, missing |-> "employee_id"]>> ELSE <<>>)
             \o ValidationErrors_OnePerPage(Tail(payslips))

\* process, lines 239-244: one message per page and missing field.
RECURSIVE ValidationErrors(_)
ValidationErrors(payslips) ==
    IF payslips = <<>> THEN <<>>
    ELSE LET ps == Head(payslips)
         IN  (IF ~Truthy(ps.name) THEN <<[page |-> ps.page_number + 1, missing |-> "name"]>> ELSE <<>>)
             \o (IF ~Truthy(ps.employee_id)
                 THEN <<[page |-> ps.page_number + 1, missing |-> "employee_id"]>> ELSE <<>>)
             \o ValidationErrors(Tail(payslips))

\* process, lines 225-236, over the session's Records.
CorrectionsLoop(payslips, form) ==
    [i \in 1..Len(payslips) |-> ApplyForm(payslips[i], form[i])]

Blocked_OnlySeveral(errors) == Len(errors) > 1

\* process, line 246: if errors.
Blocked(errors) == errors # <<>>

\* The upsert-and-create-record loop (process 257-270, api_upload 493-508)
\* over payslips[k..]; only_complete is api_upload's guard of line 496.
RECURSIVE CreateRecords(_, _, _, _, _)
CreateRecords(acc, payslips, k, batch_id, only_complete) ==
    IF k > Len(payslips) THEN acc
    ELSE LET ps == payslips[k]
             skip == only_complete /\ ~(Truthy(ps.employee_id) /\ Truthy(ps.name))
             up == IF skip THEN [emps |-> acc.emps, id |-> NoInt]
                   ELSE upsert_employee(acc.emps, ps.employee_id, ps.name, ps.email)
         IN  CreateRecords([emps |-> up.emps,
                            recs |-> create_payslip_record(acc.recs, batch_id, up.id, ps)],
                           payslips, k + 1, batch_id, only_complete)

Min(a, b) == IF a < b THEN a ELSE b

\* for item, record_id in zip(processed, record_ids): update_record_file_info
RECURSIVE ZipFileInfo(_, _, _, _)
ZipFileInfo(recs, processed, record_ids, n) ==
    IF n = 0 THEN recs
    ELSE update_record_file_info(ZipFileInfo(recs, processed, record_ids, n - 1),
                                 record_ids[n], processed[n].filename, processed[n].path)

\* for result, record_id in zip(send_results, record_ids): update_record_email_status
RECURSIVE ZipEmailStatus(_, _, _, _)
ZipEmailStatus(recs, send_results, record_ids, n) ==
    IF n = 0 THEN recs
    ELSE update_record_email_status(ZipEmailStatus(recs, send_results, record_ids, n - 1),
                                    record_ids[n], send_results[n].success, send_results[n].error)

NewRecordIds_Reversed(rows_before, n) == [k \in 1..n |-> rows_before + n + 1 - k]

\* record_ids of process 257-270 and api_upload 493-508: the ids of the rows
\* created for the n Records, in the order of the Records.
NewRecordIds(rows_before, n) == [k \in 1..n |-> rows_before + k]

BatchFailed_KeepsSavedFiles(opened, batch_id, created, processed, record_ids, fail_at) ==
    [ended |-> "failed", emps |-> created.emps,
     recs |-> ZipFileInfo(created.recs, processed, record_ids, fail_at),
     bs |-> update_batch_status(opened, batch_id, "failed"),
     files |-> SaveAll(disk, processed, fail_at), calls |-> <<>>]

\* split_and_encrypt raised after saving the first fail_at artifacts: the
\* except branch (process 276-279, api_upload 514-517).
BatchFailed(opened, batch_id, created, processed, record_ids, fail_at) ==
    [ended |-> "failed", emps |-> created.emps, recs |-> created.recs,
     bs |-> update_batch_status(opened, batch_id, "failed"),
     files |-> SaveAll(disk, processed, fail_at), calls |-> <<>>]

\* An exception left send_all_payslips (process 286, api_upload 523): the
\* handler ends there, after the file info was written.
BatchRaised(opened, batch_id, created, processed, record_ids, sending) ==
    [ended |-> "raised", emps |-> created.emps,
     recs |-> ZipFileInfo(created.recs, processed, record_ids,
                          Min(Len(processed), Len(record_ids))),
     bs |-> opened,
     files |-> SaveAll(disk, processed, Len(processed)), calls |-> sending.calls]

\* The handler ran to its end (process 281-296, api_upload 519-530).
BatchCompleted(opened, batch_id, created, processed, record_ids, sending) ==
    [ended |-> "completed", emps |-> created.emps,
     recs |-> ZipEmailStatus(ZipFileInfo(created.recs, processed, record_ids,
                                         Min(Len(processed), Len(record_ids))),
                             sending.results, record_ids,
                             Min(Len(sending.results), Len(record_ids))),
     bs |-> update_batch_status(opened, batch_id, "completed"),
     files |-> SaveAll(disk, processed, Len(processed)), calls |-> sending.calls]

\* From create_batch to the end of the handler (process 250-296, api_upload
\* 486-530).  env.source_pages is the page count pikepdf sees, env.fail_at
\* the number of artifacts saved before split_and_encrypt raises (NoInt: it
\* does not), env.fates what happens to each message.
RunBatch(payslips, only_complete, env) ==
    LET batch_id == Len(batches) + 1
        opened == create_batch(batches, Len(payslips))
        created == CreateRecords([emps |-> employees, recs |-> records], payslips, 1,
                                 batch_id, only_complete)
        record_ids == NewRecordIds(Len(records), Len(payslips))
        processed == split_and_encrypt(payslips, batch_id, env.source_pages)
        sending == send_all_payslips(processed, env.fates)
    IN  IF env.fail_at # NoInt
        THEN BatchFailed(opened, batch_id, created, processed, record_ids, env.fail_at)
        ELSE IF sending.raised
        THEN BatchRaised(opened, batch_id, created, processed, record_ids, sending)
        ELSE BatchCompleted(opened, batch_id, created, processed, record_ids, sending)

\* The environments of one RunBatch for n Records.
SourcePages(n) == {n - 1, n}
FailPoints(processed) == {NoInt} \cup 0..(Len(processed) - 1) \cup {0}
FatesOf(processed) ==
    {fates \in [1..Len(processed) -> Fates] :
        \A k \in 1..Len(processed) : ~Truthy(processed[k].payslip.email) => fates[k] = "sent"}
Environments(payslips) ==
    UNION {LET processed == split_and_encrypt(payslips, 0, source_pages)
           IN  {[source_pages |-> source_pages, fail_at |-> fail_at, fates |-> <<>>] :
                    fail_at \in FailPoints(processed) \ {NoInt}}
               \cup {[source_pages |-> source_pages, fail_at |-> NoInt, fates |-> fates] :
                    fates \in FatesOf(processed)} :
           source_pages \in SourcePages(Len(payslips))}

-----------------------------------------------------------------------------
(* app.py: the request handlers *)

SessionIds == 1..MaxSessions
RetryTargets == 1..MaxRecords

\* Pages held by live sessions; with the rows already written they must fit
\* the table bound for a new document to be accepted.
RECURSIVE LivePages(_)
LivePages(S) ==
    IF S = {} THEN 0
    ELSE LET sid == CHOOSE x \in S : TRUE
         IN  Len(sessions[sid].payslips) + LivePages(S \ {sid})

Room(n) == Len(records) + n <= MaxRecords

\* No library function has been called on its own.
NoProbe == [fn |-> "none"]

Init ==
    /\ sessions = <<>>
    /\ nextSession = 0
    /\ employees = <<>>
    /\ batches = <<>>
    /\ records = <<>>
    /\ disk = <<>>
    /\ mail = <<>>
    /\ origin = <<>>
    /\ response = Response("start", "ok", 0)
    /\ probe = NoProbe
    /\ workdirs = <<>>

\* POST /upload with a PDF the extractor reads into at least one Record.
upload ==
    /\ nextSession < MaxSessions
    /\ \E n \in 1..MaxPages : \E ex \in Extractions(n) :
        LET session_id == nextSession + 1
            payslips == [k \in 1..n |-> BackfillEmail(ex[k], employees)]
        IN  /\ Room(n + LivePages(DOMAIN sessions))
            /\ nextSession' = session_id
            /\ sessions' = [sid \in DOMAIN sessions \cup {session_id} |->
                              IF sid = session_id THEN [payslips |-> payslips] ELSE sessions[sid]]
            /\ response' = Response("upload", "ok", session_id)
    /\ UNCHANGED <<employees, batches, records, disk, mail, origin, probe, workdirs>>

\* GET /preview/<session_id>
preview(session_id) ==
    /\ response' = Response("preview", IF session_id \in DOMAIN sessions THEN "ok" ELSE "not_found",
                            session_id)
    /\ UNCHANGED <<sessions, nextSession, employees, batches, records, disk, mail, origin, probe, workdirs>>

SessionsAfter_NeverPopped(corrected, session_id, ended) == corrected

\* process: _sessions.pop(session_id) at line 299 is reached only when the
\* batch was completed; the returns of lines 279 (split raised) and an
\* exception leaving the handler keep the session.
SessionsAfter(corrected, session_id, ended) ==
    IF ended = "completed"
    THEN [sid \in DOMAIN corrected \ {session_id} |-> corrected[sid]]
    ELSE corrected

\* POST /process
process(session_id) ==
    IF session_id \notin DOMAIN sessions
    THEN /\ response' = Response("process", "not_found", session_id)
         /\ UNCHANGED <<sessions, nextSession, employees, batches, records, disk, mail, origin, probe, workdirs>>
    ELSE \E form \in [1..Len(sessions[session_id].payslips) -> FormRows] :
         \E payslips \in {[i \in 1..Len(form) |-> ApplyForm(sessions[session_id].payslips[i], form[i])]} :
         \E corrected \in {[sessions EXCEPT ![session_id].payslips = payslips]} :
            IF Blocked(ValidationErrors(payslips))
            THEN /\ sessions' = corrected
                 /\ response' = Response("process", "validation_error", session_id)
                 /\ UNCHANGED <<nextSession, employees, batches, records, disk, mail, origin, probe, workdirs>>
            ELSE /\ Room(Len(payslips))
                 /\ \E env \in Environments(payslips) :
                    \E run \in {RunBatch(payslips, FALSE, env)} :
                        /\ employees' = run.emps
                        /\ records' = run.recs
                        /\ batches' = run.bs
                        /\ disk' = run.files
                        /\ mail' = mail \o run.calls
                        /\ origin' = Append(origin, [via |-> "process", session |-> session_id])
                        /\ sessions' = SessionsAfter(corrected, session_id, run.ended)
                        /\ response' = Response("process", run.ended, session_id)
                        /\ UNCHANGED <<nextSession, probe, workdirs>>

\* An override of api_upload for one page: the fields it names (Absent, or
\* NoInt for month and year: the key is not in the object).
Override(name, employee_id, email, month, year) ==
    [name |-> name, employee_id |-> employee_id, email |-> email, month |-> month, year |-> year]

NoOverride == Override(Absent, Absent, Absent, NoInt, NoInt)

Overrides ==
    {NoOverride,
     Override(Name2, Absent, Absent, NoInt, NoInt),
     Override(Name1, Id1, Email1, 2, 2025)}

ApplyOverride_ResetsUnnamed(ps, ov) ==
    [ps EXCEPT !.name = FormGet(ov.name, ps.name),
               !.employee_id = FormGet(ov.employee_id, ps.employee_id),
               !.email = FormGet(ov.email, NoVal),
               !.month = IF ov.month # NoInt THEN ov.month ELSE ps.month,
               !.year = IF ov.year # NoInt THEN ov.year ELSE ps.year]

\* api_upload, lines 477-484; the month and year of an override are JSON
\* integers, on which int() changes nothing.
ApplyOverride(ps, ov) ==
    [ps EXCEPT !.name = FormGet(ov.name, ps.name),
               !.employee_id = FormGet(ov.employee_id, ps.employee_id),
               !.email = FormGet(ov.email, ps.email),
               !.month = IF ov.month # NoInt THEN ov.month ELSE ps.month,
               !.year = IF ov.year # NoInt THEN ov.year ELSE ps.year]

\* api_upload, lines 474-476: the overrides are a dict keyed by the 1-based
\* page number; a Record whose key is not in it is left alone.
OverridesLoop(payslips, overrides) ==
    [i \in 1..Len(payslips) |->
        IF payslips[i].page_number + 1 \in DOMAIN overrides
        THEN ApplyOverride(payslips[i], overrides[payslips[i].page_number + 1])
        ELSE payslips[i]]

\* POST /api/upload with a PDF the extractor reads.
api_upload_pages(n) ==
    \E ex \in Extractions(n) : \E ov \in [1..n -> Overrides] :
    \E payslips \in {OverridesLoop(ex, ov)} :
        /\ Room(n + LivePages(DOMAIN sessions))
        /\ \E env \in Environments(payslips) :
           \E run \in {RunBatch(payslips, TRUE, env)} :
               /\ employees' = run.emps
               /\ records' = run.recs
               /\ batches' = run.bs
               /\ disk' = run.files
               /\ mail' = mail \o run.calls
               /\ origin' = Append(origin, [via |-> "api_upload", session |-> 0])
               /\ response' = Response("api_upload", run.ended, 0)
               /\ UNCHANGED <<sessions, nextSession, probe, workdirs>>

api_upload == \E n \in 1..MaxPages : api_upload_pages(n)

\* retry_email, lines 361-364.
RetryPeriod(month, year) ==
    IF TruthyInt(month) /\ TruthyInt(year)
    THEN MonthName(month) \o <<" ">> \o Str(year)
    ELSE UnknownPeriod

RetryCall(row) ==
    MailCall(row.employee_email, Or(row.employee_name, DefaultGreeting),
             RetryPeriod(row.month, row.year), row.encrypted_path, row.output_filename)

RetryRefusal_NoEmailCheck(row, files) ==
    IF row.encrypted_path = NoPath \/ row.encrypted_path \notin DOMAIN files
    THEN "artifact_missing"
    ELSE "go"

\* Which check of retry_email refuses the row, or "go" (lines 352-358).
RetryRefusal(row, files) ==
    IF row.encrypted_path = NoPath \/ row.encrypted_path \notin DOMAIN files
    THEN "artifact_missing"
    ELSE IF ~Truthy(row.employee_email) THEN "email_missing" ELSE "go"

\* POST /retry/<record_id>
retry_email(record_id) ==
    IF record_id \notin DOMAIN records
    THEN /\ response' = Response("retry", "not_found", record_id)
         /\ UNCHANGED <<sessions, nextSession, employees, batches, records, disk, mail, origin, probe, workdirs>>
    ELSE LET row == records[record_id]
             refusal == RetryRefusal(row, disk)
         IN  IF refusal # "go"
             THEN /\ response' = Response("retry", refusal, record_id)
                  /\ UNCHANGED <<sessions, nextSession, employees, batches, records, disk, mail, origin, probe, workdirs>>
             ELSE /\ Len(mail) < MaxMail
                  /\ \E fate \in Fates :
                        LET sent == send_payslip_email(RetryCall(row), fate)
                        IN  IF sent.raised
                            THEN /\ response' = Response("retry", "raised", record_id)
                                 /\ UNCHANGED <<records, mail>>
                            ELSE /\ mail' = mail \o sent.calls
                                 /\ records' = update_record_email_status(
                                                   records, record_id, sent.result.success, sent.result.error)
                                 /\ response' = Response("retry", IF sent.result.success THEN "sent" ELSE "failed",
                                                         record_id)
                  /\ UNCHANGED <<sessions, nextSession, employees, batches, disk, origin, probe, workdirs>>

\* An artifact file disappears from the output folder (what the
\* os.path.exists test of retry_email, line 352, guards against).
RemoveArtifact(path) ==
    /\ path \in DOMAIN disk
    /\ disk' = [p \in DOMAIN disk \ {path} |-> disk[p]]
    /\ response' = Response("remove_artifact", "ok", 0)
    /\ UNCHANGED <<sessions, nextSession, employees, batches, records, mail, origin, probe, workdirs>>

Next ==
    \/ upload
    \/ \E session_id \in SessionIds : preview(session_id)
    \/ \E session_id \in SessionIds : process(session_id)
    \/ api_upload
    \/ \E record_id \in RetryTargets : retry_email(record_id)
    \/ \E path \in DOMAIN disk : RemoveArtifact(path)

Spec == Init /\ [][Next]_vars

-----------------------------------------------------------------------------
(* The library functions called on their own, on inputs of bounded size:   *)
(* one call per behaviour, its input and output kept in probe.             *)

Probe(fn, input, output) == [fn |-> fn, input |-> input, output |-> output]

\* send_all_payslips on the result list of a split and on what happens to
\* each message.
CallDispatch ==
    /\ probe = NoProbe
    /\ \E n \in 0..MaxItems : \E ex \in Extractions(n) :
       \E processed \in {split_and_encrypt(ex, 0, n)} : \E fates \in FatesOf(processed) :
          probe' = Probe("send_all_payslips",
                         [processed_files |-> processed, fates |-> fates],
                         send_all_payslips(processed, fates))
    /\ UNCHANGED <<sessions, nextSession, employees, batches, records, disk, mail, origin, response, workdirs>>

\* split_and_encrypt on the Records of a document of n pages, of which the
\* splitter's reader sees source_pages.
CallSplit ==
    /\ probe = NoProbe
    /\ \E n \in 0..MaxItems : \E ex \in Extractions(n) : \E source_pages \in 0..n :
          probe' = Probe("split_and_encrypt",
                         [payslips |-> ex, source_pages |-> source_pages],
                         SplitLoop(ex, 0, source_pages, 1,
                                   [results |-> <<>>, files |-> <<>>, raised |-> FALSE]))
    /\ UNCHANGED <<sessions, nextSession, employees, batches, records, disk, mail, origin, response, workdirs>>

\* extract_with_vision, as upload and api_upload call it (no table), on a
\* document of n pages.
CallVision ==
    /\ probe = NoProbe
    /\ \E n \in 1..MaxItems : \E pages \in VisionDocs(n) :
          probe' = Probe("extract_with_vision",
                         [pages |-> pages, corrections |-> NoCorrections],
                         extract_with_vision(pages, NoCorrections))
    /\ UNCHANGED <<sessions, nextSession, employees, batches, records, disk, mail, origin, response, workdirs>>

\* The known-mistake tables tried: none; one wrong spelling of a name; two
\* names recorded as each other's correction; an identity number and a month.
Tables ==
    <<NoCorrections,
      Corrections(Name1 :> Name2, <<>>, <<>>, <<>>, <<>>),
      Corrections((Name1 :> Name2) @@ (Name2 :> Name1), <<>>, <<>>, <<>>, <<>>),
      Corrections(<<>>, Id1 :> Id2, <<>>, 1 :> 2, <<>>)>>

\* The two adjustment passes on extracted Records: apply_corrections with
\* the table, then the overrides of api_upload, lines 474-484.
CorrectionLayer(extracted, corrections, overrides) ==
    LET substituted == apply_corrections(extracted, corrections)
    IN  [i \in 1..Len(extracted) |-> ApplyOverride(substituted[i], overrides[i])]

\* The two passes run once, and run again on their own output.
CallCorrect ==
    /\ probe = NoProbe
    /\ \E n \in 1..MaxPages : \E ex \in Extractions(n) :
       \E t \in DOMAIN Tables : \E ov \in [1..n -> Overrides] :
          probe' = Probe("correction_layer",
                         [extracted |-> ex, corrections |-> Tables[t], overrides |-> ov],
                         [once |-> CorrectionLayer(ex, Tables[t], ov),
                          twice |-> CorrectionLayer(CorrectionLayer(ex, Tables[t], ov),
                                                    Tables[t], ov)])
    /\ UNCHANGED <<sessions, nextSession, employees, batches, records, disk, mail, origin, response, workdirs>>

\* The extraction step of api_upload, lines 452-484, by a caller that holds
\* a known-mistake table: extract_with_vision takes the table, parse_payslips
\* has no parameter for one; then the overrides.  read is what the extractor
\* read on the pages, before any table.
CallExtract ==
    /\ probe = NoProbe
    /\ \E n \in 1..MaxPages : \E t \in DOMAIN Tables : \E ov \in [1..n -> Overrides] :
          \/ \E pages \in VisionDocs(n) :
                probe' = Probe("extract",
                               [strategy |-> "vision",
                                read |-> extract_with_vision(pages, NoCorrections),
                                corrections |-> Tables[t], overrides |-> ov],
                               LET extracted == extract_with_vision(pages, Tables[t])
                               IN  [raised |-> extracted.raised,
                                    payslips |-> [i \in 1..Len(extracted.results) |->
                                                     ApplyOverride(extracted.results[i], ov[i])]])
          \/ \E ex \in Extractions(n) :
                probe' = Probe("extract",
                               [strategy |-> "pattern",
                                read |-> [results |-> ex, raised |-> FALSE],
                                corrections |-> Tables[t], overrides |-> ov],
                               [raised |-> FALSE,
                                payslips |-> [i \in 1..n |-> ApplyOverride(ex[i], ov[i])]])
    /\ UNCHANGED <<sessions, nextSession, employees, batches, records, disk, mail, origin, response, workdirs>>

\* An extracted Record as the session holds it, with the page's text.
RawText(page_number) == <<"p", "a", "g", "e", " ">> \o Str(page_number + 1)

Scanned(ps) ==
    [page_number |-> ps.page_number, name |-> ps.name, employee_id |-> ps.employee_id,
     email |-> ps.email, month |-> ps.month, year |-> ps.year,
     raw_text |-> RawText(ps.page_number)]

ScannedDoc(ex) == [k \in 1..Len(ex) |-> Scanned(ex[k])]

\* process, lines 222-244: the operator's form applied to the session's
\* Records, and the validation of the result.
CallProcessForm ==
    /\ probe = NoProbe
    /\ \E n \in 1..MaxPages : \E ex \in Extractions(n) : \E form \in [1..n -> FormRows] :
       \E corrected \in {CorrectionsLoop(ScannedDoc(ex), form)} :
          probe' = Probe("process_form",
                         [payslips |-> ScannedDoc(ex), form |-> form],
                         [payslips |-> corrected, errors |-> ValidationErrors(corrected)])
    /\ UNCHANGED <<sessions, nextSession, employees, batches, records, disk, mail, origin, response, workdirs>>

\* api_upload, lines 473-484: an overrides object with any of the keys
\* 1 .. n + 1 applied to the Records of a document of n pages.
CallOverrides ==
    /\ probe = NoProbe
    /\ \E n \in 1..MaxPages : \E ex \in Extractions(n) :
       \E keys \in SUBSET (1..(n + 1)) : \E overrides \in [keys -> Overrides] :
          probe' = Probe("api_overrides",
                         [payslips |-> ScannedDoc(ex), overrides |-> overrides],
                         [payslips |-> OverridesLoop(ScannedDoc(ex), overrides)])
    /\ UNCHANGED <<sessions, nextSession, employees, batches, records, disk, mail, origin, response, workdirs>>

\* EmployeePayslip.filename for Records with and without a name, a month
\* and a year.
FilenameInputs ==
    {EmployeePayslip(page_number, name, Id1, NoVal, month, year) :
        page_number \in 0..MaxPages, name \in {Name1, NoVal, <<>>},
        month \in {NoInt, 0, 1, 12, 13}, year \in {NoInt, 0, 2024}}

CallFilename ==
    /\ probe = NoProbe
    /\ \E ps \in FilenameInputs : probe' = Probe("filename", ps, filename(ps))
    /\ UNCHANGED <<sessions, nextSession, employees, batches, records, disk, mail, origin, response, workdirs>>

\* What re.search can return for a pattern: no match, or, for the
\* month-name pattern, a word and four digits, and for a numeric pattern
\* one or two digits and four digits.
MatchesOf(pattern) ==
    {NoMatch}
    \cup (IF pattern = "label_month_name"
          THEN {[g1 |-> g1, g2 |-> g2] :
                   g1 \in {HEBREW_MONTHS[1], HEBREW_MONTHS[12], <<"s", "k", "r">>},
                   g2 \in {<<"1", "8", "9", "9">>, <<"2", "0", "2", "4">>, <<"2", "1", "0", "1">>}}
          ELSE {[g1 |-> g1, g2 |-> g2] :
                   g1 \in {<<"0">>, <<"1">>, <<"1", "2">>, <<"1", "3">>},
                   g2 \in {<<"1", "8", "9", "9">>, <<"1", "9", "0", "0">>,
                           <<"2", "1", "0", "0">>, <<"2", "1", "0", "1">>}})

\* _parse_month_year on a text in which each pattern has the given first
\* match.
CallParsePeriod ==
    /\ probe = NoProbe
    /\ \E m1 \in MatchesOf(PERIOD_PATTERNS[1]) : \E m2 \in MatchesOf(PERIOD_PATTERNS[2]) :
       \E m3 \in MatchesOf(PERIOD_PATTERNS[3]) :
          probe' = Probe("_parse_month_year", <<m1, m2, m3>>, _parse_month_year(<<m1, m2, m3>>))
    /\ UNCHANGED <<sessions, nextSession, employees, batches, records, disk, mail, origin, response, workdirs>>

\* send_all_payslips on one item with an email, for the months and years a
\* Record can carry after the operator's corrections (process, lines
\* 231-236: any number typed in the form).
CallDispatchItem ==
    /\ probe = NoProbe
    /\ \E month \in {NoInt, 0, 1, 12, 13} : \E year \in {NoInt, 0, 2024} :
       \E fate \in {"sent", "smtp_error"} :
       \E processed \in {split_and_encrypt(<<EmployeePayslip(0, Name1, Id1, Email1, month, year)>>, 0, 1)} :
          probe' = Probe("send_one",
                         [processed_files |-> processed, fates |-> <<fate>>],
                         send_all_payslips(processed, <<fate>>))
    /\ UNCHANGED <<sessions, nextSession, employees, batches, records, disk, mail, origin, response, workdirs>>

\* The message the dispatcher composes for a Record's item and the message
\* an explicit retry composes for the Delivery Record written for the same
\* Record (process lines 257-284, then retry_email lines 360-374).
CallRetry ==
    /\ probe = NoProbe
    /\ \E month \in {NoInt, 0, 1, 12, 13} : \E year \in {NoInt, 0, 2024} :
       \E ps \in {EmployeePayslip(0, Name1, Id1, Email1, month, year)} :
       \E item \in {split_and_encrypt(<<ps>>, 1, 1)[1]} :
       \E row \in {update_record_file_info(create_payslip_record(<<>>, 1, 1, ps), 1,
                                           item.filename, item.path)[1]} :
          probe' = Probe("retry_email", [payslip |-> ps, row |-> row],
                         [dispatch |-> DispatchCall(item), retry |-> RetryCall(row)])
    /\ UNCHANGED <<sessions, nextSession, employees, batches, records, disk, mail, origin, response, workdirs>>

FnNext ==
    \/ CallRetry
    \/ CallFilename
    \/ CallParsePeriod
    \/ CallDispatchItem
    \/ CallProcessForm
    \/ CallOverrides
    \/ CallDispatch
    \/ CallSplit
    \/ CallVision
    \/ CallCorrect
    \/ CallExtract

FnSpec == Init /\ [][FnNext]_vars

-----------------------------------------------------------------------------
(* app.py: an upload followed step by step, with the requests that can
   interleave with it *)

\* How many handles on the source document a library function holds while
\* it runs: the extractors, the preview pass and the splitter open it
\* (payslip_parser.py:178, vision_extractor.py:126 and 212,
\* pdf_processor.py:45); get_cached_preview reads the cached image only.
SourceOpens_RendersOnDemand(fn) == 1

SourceOpens(fn) == IF fn = "get_cached_preview" THEN 0 ELSE 1

WorkDir(stage, payslips, pages, cached, readers, serving) ==
    [stage |-> stage, payslips |-> payslips, pages |-> pages, cached |-> cached,
     readers |-> readers, serving |-> serving]

\* os.makedirs(session_dir) and file.save(pdf_path), upload lines 82-89.
makedirs(dirs, d) ==
    [x \in DOMAIN dirs \cup {d} |-> IF x = d THEN WorkDir("saved", <<>>, 0, 0, 0, <<>>) ELSE dirs[x]]

\* shutil.rmtree(session_dir, ignore_errors=True)
rmtree(dirs, d) == [x \in DOMAIN dirs \ {d} |-> dirs[x]]

\* The three early returns of upload, lines 69-80.
UploadRejections == {"no_file", "empty_filename", "not_pdf"}

\* The three early returns of api_upload, lines 427-441.
ApiRejections == {"no_file", "not_pdf", "bad_overrides"}

upload_rejected ==
    /\ \E why \in UploadRejections : response' = Response("upload", why, 0)
    /\ UNCHANGED <<sessions, nextSession, employees, batches, records, disk, mail, origin, probe, workdirs>>

\* upload, lines 82-89: a fresh session id, its directory, the PDF in it.
upload_save ==
    /\ nextSession < MaxSessions
    /\ nextSession' = nextSession + 1
    /\ workdirs' = makedirs(workdirs, nextSession + 1)
    /\ UNCHANGED <<sessions, employees, batches, records, disk, mail, origin, response, probe>>

\* The extractor opens the document (with pdfplumber.open), or the open
\* raises and upload removes the directory (lines 125-129).
extract_open(d) ==
    /\ d \in DOMAIN workdirs
    /\ workdirs[d].stage = "saved"
    /\ \/ /\ workdirs' = [workdirs EXCEPT ![d].stage = "extracting",
                                          ![d].readers = @ + SourceOpens("parse_payslips")]
          /\ UNCHANGED response
       \/ /\ workdirs' = rmtree(workdirs, d)
          /\ response' = Response("upload", "extraction_error", d)
    /\ UNCHANGED <<sessions, nextSession, employees, batches, records, disk, mail, origin, probe>>

\* The extractor leaves its with block: it raised (lines 125-129), it read
\* no page (lines 131-134), or it read n pages (emails filled in from the
\* directory, lines 98-101 and 116-123).
extract_close(d) ==
    /\ d \in DOMAIN workdirs
    /\ workdirs[d].stage = "extracting"
    /\ \/ /\ workdirs' = rmtree(workdirs, d)
          /\ response' = Response("upload", "extraction_error", d)
       \/ /\ workdirs' = rmtree(workdirs, d)
          /\ response' = Response("upload", "no_payslips", d)
       \/ /\ \E n \in 1..MaxPages : \E ex \in Extractions(n) :
                workdirs' = [workdirs EXCEPT
                                ![d].stage = "extracted",
                                ![d].payslips = [k \in 1..n |-> BackfillEmail(ex[k], employees)],
                                ![d].pages = n,
                                ![d].readers = @ - SourceOpens("parse_payslips")]
          /\ UNCHANGED response
    /\ UNCHANGED <<sessions, nextSession, employees, batches, records, disk, mail, origin, probe>>

\* generate_all_previews opens the document (vision_extractor.py:212), or
\* fails before it does (caught as a warning, upload lines 138-141).
previews_open(d) ==
    /\ d \in DOMAIN workdirs
    /\ workdirs[d].stage = "extracted"
    /\ \/ workdirs' = [workdirs EXCEPT ![d].stage = "rendering",
                                       ![d].readers = @ + SourceOpens("generate_all_previews")]
       \/ workdirs' = [workdirs EXCEPT ![d].stage = "rendered"]
    /\ UNCHANGED <<sessions, nextSession, employees, batches, records, disk, mail, origin, response, probe>>

\* generate_all_previews leaves its with block having saved the images of
\* the first cached pages: all of them, or fewer when a page failed to
\* render (vision_extractor.py:213-225).
previews_close(d) ==
    /\ d \in DOMAIN workdirs
    /\ workdirs[d].stage = "rendering"
    /\ \E cached \in 0..workdirs[d].pages :
          workdirs' = [workdirs EXCEPT ![d].stage = "rendered",
                                       ![d].cached = cached,
                                       ![d].readers = @ - SourceOpens("generate_all_previews")]
    /\ UNCHANGED <<sessions, nextSession, employees, batches, records, disk, mail, origin, response, probe>>

\* upload, lines 143-152: the session becomes visible to other requests.
upload_register(d) ==
    /\ d \in DOMAIN workdirs
    /\ workdirs[d].stage = "rendered"
    /\ sessions' = [sid \in DOMAIN sessions \cup {d} |->
                      IF sid = d THEN [payslips |-> workdirs[d].payslips] ELSE sessions[sid]]
    /\ workdirs' = [workdirs EXCEPT ![d].stage = "registered", ![d].payslips = <<>>]
    /\ response' = Response("upload", "ok", d)
    /\ UNCHANGED <<nextSession, employees, batches, records, disk, mail, origin, probe>>

\* GET /preview/<session_id>/page/<page_number>, lines 198-205: 404 for an
\* unknown session, else the request starts reading the cached image.
page_preview_begin(session_id, page_number) ==
    IF session_id \notin DOMAIN sessions
    THEN /\ response' = Response("page_preview", "not_found", session_id)
         /\ UNCHANGED <<sessions, nextSession, employees, batches, records, disk, mail, origin, probe, workdirs>>
    ELSE /\ Len(workdirs[session_id].serving) < MaxRequests
         /\ workdirs' = [workdirs EXCEPT
                            ![session_id].serving = Append(@, page_number),
                            ![session_id].readers = @ + SourceOpens("get_cached_preview")]
         /\ UNCHANGED <<sessions, nextSession, employees, batches, records, disk, mail, origin, response, probe>>

\* get_cached_preview returns the image or None (vision_extractor.py:228-234)
\* and page_preview answers (lines 206-210).
page_preview_end(session_id, k) ==
    /\ session_id \in DOMAIN workdirs
    /\ k \in DOMAIN workdirs[session_id].serving
    /\ workdirs' = [workdirs EXCEPT
                       ![session_id].serving = SubSeq(@, 1, k - 1) \o SubSeq(@, k + 1, Len(@)),
                       ![session_id].readers = @ - SourceOpens("get_cached_preview")]
    /\ response' = Response("page_preview",
                            IF workdirs[session_id].serving[k] < workdirs[session_id].cached
                            THEN "ok" ELSE "unavailable",
                            session_id)
    /\ UNCHANGED <<sessions, nextSession, employees, batches, records, disk, mail, origin, probe>>

api_upload_rejected ==
    /\ \E why \in ApiRejections : response' = Response("api_upload", why, 0)
    /\ UNCHANGED <<sessions, nextSession, employees, batches, records, disk, mail, origin, probe, workdirs>>

\* api_upload, lines 443-471: the directory is made, the extractor raises,
\* the directory is removed.
api_upload_unreadable ==
    /\ response' = Response("api_upload", "extraction_error", 0)
    /\ UNCHANGED <<sessions, nextSession, employees, batches, records, disk, mail, origin, probe, workdirs>>

\* api_upload of a document in which the extractor finds no page: no test
\* of the result precedes create_batch (lines 471-477).
api_upload_empty ==
    /\ Len(batches) < MaxBatches
    /\ api_upload_pages(0)

UploadNext ==
    \/ upload_rejected
    \/ upload_save
    \/ \E d \in SessionIds : extract_open(d)
    \/ \E d \in SessionIds : extract_close(d)
    \/ \E d \in SessionIds : previews_open(d)
    \/ \E d \in SessionIds : previews_close(d)
    \/ \E d \in SessionIds : upload_register(d)
    \/ \E d \in SessionIds : \E page_number \in 0..MaxPages : page_preview_begin(d, page_number)
    \/ \E d \in SessionIds : \E k \in 1..MaxRequests : page_preview_end(d, k)
    \/ api_upload_rejected
    \/ api_upload_unreadable
    \/ api_upload_empty

UploadSpec == Init /\ [][UploadNext]_vars

-----------------------------------------------------------------------------
(* database.py: the employees directory under confirmations and edits *)

\* The UNIQUE constraint on employees.employee_id (database.py:34): the
\* UPDATE would give row db_id an identity number another row holds.
UniqueViolation_Unchecked(emps, db_id, employee_id) == FALSE

UniqueViolation(emps, db_id, employee_id) ==
    \E j \in DOMAIN emps : j # db_id /\ emps[j].employee_id = employee_id

\* database.update_employee, lines 139-151; raises (sqlite3.IntegrityError)
\* when the constraint is violated.
db_update_employee(emps, db_id, name, employee_id, email) ==
    IF db_id \notin DOMAIN emps THEN [emps |-> emps, raised |-> FALSE]
    ELSE IF UniqueViolation(emps, db_id, employee_id) THEN [emps |-> emps, raised |-> TRUE]
    ELSE [emps |-> [emps EXCEPT ![db_id] = EmployeeRow(employee_id, name, Or(email, NoVal))],
          raised |-> FALSE]

\* POST /employees/update/<employee_db_id>, app.py lines 319-335.
update_employee(employee_db_id, name, employee_id, email) ==
    /\ IF ~Truthy(name) \/ ~Truthy(employee_id)
       THEN /\ response' = Response("update_employee", "bad_request", employee_db_id)
            /\ UNCHANGED employees
       ELSE \E done \in {db_update_employee(employees, employee_db_id, name, employee_id,
                                            Or(email, NoVal))} :
               /\ employees' = done.emps
               /\ response' = Response("update_employee",
                                       IF done.raised THEN "error" ELSE "ok", employee_db_id)
    /\ probe' = NoProbe
    /\ UNCHANGED <<sessions, nextSession, batches, records, disk, mail, origin, workdirs>>

\* One pass of the loop of process (lines 257-259) or api_upload (lines
\* 494-497): one upsert_employee, committed on its own.  process passes
\* the validated Records (name and identity number present, email as
\* typed), api_upload those that have both (line 496).
confirm_record ==
    /\ \E employee_id \in {Id1, Id2} : \E name \in {Name1, Name2} :
       \E email \in {NoVal, <<>>, Email1} :
       \E up \in {upsert_employee(employees, employee_id, name, email)} :
          /\ employees' = up.emps
          /\ probe' = Probe("upsert_employee",
                            [employee_id |-> employee_id, name |-> name, email |-> email],
                            up.id)
    /\ response' = Response("confirm", "ok", 0)
    /\ UNCHANGED <<sessions, nextSession, batches, records, disk, mail, origin, workdirs>>

\* An edit names a row id and carries a JSON body; the handler strips each
\* field and reads a missing or empty one as empty (app.py:322-325).
DirectoryNext ==
    \/ confirm_record
    \/ \E employee_db_id \in 1..(Len(employees) + 1) : \E name \in {Name1, Name2, <<>>} :
       \E employee_id \in {Id1, Id2, <<>>} : \E email \in {Email1, <<>>} :
          update_employee(employee_db_id, name, employee_id, email)

DirectorySpec == Init /\ [][DirectoryNext]_vars

-----------------------------------------------------------------------------
(* Properties *)

RowsOf(batch_id) == {r \in DOMAIN records : records[r].batch_id = batch_id}

\* The in-memory Record a row was created from, as of confirmation.
RowPayslip(row) ==
    EmployeePayslip(row.page_number, row.employee_name, row.employee_id,
                    row.employee_email, row.month, row.year)

HasArtifact(row) == row.output_filename # NoVal /\ row.encrypted_path # NoPath

HasOutcome(row) == row.email_sent = 1 \/ row.email_error # NoVal

Untouched(row) ==
    /\ row.output_filename = NoVal
    /\ row.encrypted_path = NoPath
    /\ row.email_sent = 0
    /\ row.email_sent_at = NoVal
    /\ row.email_error = NoVal

MailedFor(row) ==
    \E k \in DOMAIN mail :
        /\ mail[k].pdf_path = row.encrypted_path
        /\ mail[k].recipient_email = row.employee_email

\* After a process step on session sid: some Record, as corrected, lacks a
\* name or an identity number (the Records are read from the session if it
\* is still there, else from the rows the step created).
InvalidAfterProcess(sid) ==
    IF sid \in DOMAIN sessions'
    THEN \E k \in DOMAIN sessions'[sid].payslips : ~is_valid(sessions'[sid].payslips[k])
    ELSE \E r \in DOMAIN records' \ DOMAIN records : ~is_valid(RowPayslip(records'[r]))

\* C1: a process request whose Records, after the operator's corrections,
\* include one without a name or an identity number is blocked: it ends as a
\* validation error, creates or updates no batch, Delivery Record or Known
\* Identity, writes no artifact, does not invoke the mail transport, and
\* leaves the session in place.
C1_ValidationBlocksConfirmation ==
    [][\A sid \in DOMAIN sessions :
          (response'.op = "process" /\ response'.ref = sid /\ InvalidAfterProcess(sid))
          => /\ response'.status = "validation_error"
             /\ UNCHANGED <<batches, records, employees, disk, mail, origin>>
             /\ sid \in DOMAIN sessions']_vars

C1_Witness ==
    /\ response.op = "process"
    /\ response.status = "validation_error"
    /\ response.ref \in DOMAIN sessions
    /\ \E k \in DOMAIN sessions[response.ref].payslips :
          ~is_valid(sessions[response.ref].payslips[k])
    /\ batches = <<>>
    /\ records = <<>>

\* C2 as stated: on every persisting path validation precedes batch creation,
\* so no persisted Delivery Record lacks a name or an identity number.
C2_Original ==
    \A r \in DOMAIN records : is_valid(RowPayslip(records[r]))

\* C2 as amended: every Delivery Record of a batch created by the web
\* process operation has a name and an identity number.
C2_ProcessValidatesBeforeBatch ==
    \A r \in DOMAIN records :
        origin[records[r].batch_id].via = "process" => is_valid(RowPayslip(records[r]))

C2_Witness ==
    /\ \E r \in DOMAIN records : origin[records[r].batch_id].via = "process"
    /\ \E r \in DOMAIN records :
          /\ origin[records[r].batch_id].via = "api_upload"
          /\ ~is_valid(RowPayslip(records[r]))

C4_Original ==
    \A b \in DOMAIN batches :
        batches[b].status = "completed" => \A r \in RowsOf(b) : HasArtifact(records[r])

\* C5: a batch whose split raised is failed for good: the mail transport was
\* never invoked for an artifact of that batch, and none of its Delivery
\* Records has an artifact filename or path or a delivery outcome.
C5_FailedBatchUntouched ==
    \A b \in DOMAIN batches :
        batches[b].status = "failed"
        => /\ \A k \in DOMAIN mail : mail[k].pdf_path.dir # b
           /\ \A r \in RowsOf(b) : Untouched(records[r])

C5_Witness ==
    \E b \in DOMAIN batches :
        /\ batches[b].status = "failed"
        /\ \E r \in RowsOf(b) : Truthy(records[r].employee_email)
        /\ \E p \in DOMAIN disk : p.dir = b
        /\ response.op = "retry"

\* C6: what a Delivery Record holds was produced from the Record with its
\* page_index: its artifact filename and path are those the splitter derives
\* from that Record, and its delivery outcome is the one the dispatcher (or a
\* retry) produced for that Record's artifact and email.
C6_RowMatchesItsRecord ==
    \A r \in DOMAIN records :
        LET row == records[r]
        IN  /\ (row.output_filename # NoVal \/ row.encrypted_path # NoPath)
                 => /\ row.output_filename = OutputFilename(RowPayslip(row))
                    /\ row.encrypted_path = OutputPath(row.batch_id, OutputFilename(RowPayslip(row)))
            /\ HasOutcome(row) => HasArtifact(row)
            /\ row.email_sent = 1 => (Truthy(row.employee_email) /\ MailedFor(row))
            /\ row.email_error = SmtpError => (Truthy(row.employee_email) /\ MailedFor(row))
            /\ row.email_error = NoEmailError => ~Truthy(row.employee_email)

C6_Witness ==
    \E b \in DOMAIN batches : \E r1, r2 \in RowsOf(b) :
        /\ batches[b].status = "completed"
        /\ records[r1].page_number = 0
        /\ records[r1].email_sent = 1
        /\ records[r2].page_number = 1
        /\ records[r2].employee_name # records[r1].employee_name
        /\ ~HasArtifact(records[r2])

\* C7 as stated: two different Records of one batch have different output
\* paths, and the file at a Record's path is the artifact of that Record.
C7_Original ==
    \A r1, r2 \in DOMAIN records :
        (r1 # r2 /\ records[r1].batch_id = records[r2].batch_id
            /\ HasArtifact(records[r1]) /\ HasArtifact(records[r2]))
        => records[r1].encrypted_path # records[r2].encrypted_path

\* C8 as stated: once the split succeeded, the handler records the outcomes
\* and completes the batch whatever happens to the messages, so that no
\* batch is left in processing when a handler has ended.
C8_Original ==
    \A b \in DOMAIN batches : batches[b].status # "processing"

\* C9 as stated: a Delivery Record that is delivered stays delivered.
C9_Original ==
    [][\A r \in DOMAIN records :
          records[r].email_sent = 1
          => (records'[r].email_sent = 1 /\ records'[r].email_sent_at # NoVal)]_vars

\* C10: a retry of a Delivery Record whose artifact path is unset, whose
\* artifact file is not on disk, or whose email is absent is refused: the
\* mail transport is not invoked and no Delivery Record changes.
C10_RetryRefused ==
    [][\A r \in DOMAIN records :
          (/\ response'.op = "retry"
           /\ response'.ref = r
           /\ \/ records[r].encrypted_path = NoPath
              \/ records[r].encrypted_path \notin DOMAIN disk
              \/ ~Truthy(records[r].employee_email))
          => /\ response'.status \in {"artifact_missing", "email_missing"}
             /\ mail' = mail
             /\ records' = records]_vars

C10_Witness ==
    /\ response.op = "retry"
    /\ response.status = "artifact_missing"
    /\ response.ref \in DOMAIN records
    /\ records[response.ref].encrypted_path # NoPath
    /\ Truthy(records[response.ref].employee_email)

\* The identity numbers, months and years the idempotency check is asked about.
AskedIds == {Id1, Id2}
AskedMonths == {1, 2, 13}
AskedYears == {2024, 2025}

\* update_record_email_status(record_id, True) was the last outcome written.
SuccessRecorded(row) ==
    row.email_sent = 1 /\ row.email_sent_at = Now /\ row.email_error = NoVal

\* C11: the idempotency check answers true for an identity number, month
\* and year only if some Delivery Record with exactly these three has a
\* successful delivery outcome recorded; records that are not sent or failed,
\* or a success under another identity number, month or year, do not count.
C11_DeliveredOnlyIfSuccessRecorded ==
    \A id \in AskedIds : \A month \in AskedMonths : \A year \in AskedYears :
        is_already_processed(records, id, month, year)
        => \E r \in DOMAIN records :
              /\ records[r].employee_id = id
              /\ records[r].month = month
              /\ records[r].year = year
              /\ SuccessRecorded(records[r])

C11_Witness ==
    /\ is_already_processed(records, Id1, 1, 2024)
    /\ ~is_already_processed(records, Id1, 1, 2025)
    /\ \E r \in DOMAIN records :
          /\ records[r].employee_id = Id1
          /\ records[r].month = 1
          /\ records[r].year = 2025
          /\ records[r].email_error = SmtpError

PeriodInRange(month, year) ==
    /\ month = NoInt \/ month \in 1..12
    /\ year = NoInt \/ year \in 1000..9999

\* C18 as stated: every in-memory Record and every Delivery Record has a
\* month that is absent or in 1..12 and a year that is absent or has four
\* digits.
C18_Original ==
    /\ \A sid \in DOMAIN sessions : \A k \in DOMAIN sessions[sid].payslips :
          PeriodInRange(sessions[sid].payslips[k].month, sessions[sid].payslips[k].year)
    /\ \A r \in DOMAIN records : PeriodInRange(records[r].month, records[r].year)

\* C12 as stated: the dispatcher gives every item without an email the
\* failed outcome with the fixed reason and a null email, does not invoke
\* the mail transport for it, and still dispatches the items after it.
C12_Original ==
    probe.fn = "send_all_payslips"
    => \A k \in DOMAIN probe.input.processed_files :
          LET item == probe.input.processed_files[k]
          IN  ~Truthy(item.payslip.email)
              => /\ ~probe.output.raised
                 /\ k \in DOMAIN probe.output.results
                 /\ probe.output.results[k].success = FALSE
                 /\ probe.output.results[k].error = NoEmailError
                 /\ probe.output.results[k].email = NoVal
                 /\ \A c \in DOMAIN probe.output.calls :
                       probe.output.calls[c].recipient_email # item.payslip.email
                 /\ \A j \in DOMAIN probe.input.processed_files :
                       j > k => j \in DOMAIN probe.output.results

\* C13 as stated: whichever items fail, the dispatcher returns one outcome
\* per input item, outcome k being that of item k, and invokes the mail
\* transport at most once per item.
C13_Original ==
    probe.fn = "send_all_payslips"
    => /\ ~probe.output.raised
       /\ Len(probe.output.results) = Len(probe.input.processed_files)
       /\ \A k \in DOMAIN probe.output.results :
             /\ probe.output.results[k].filename = probe.input.processed_files[k].filename
             /\ probe.output.results[k].employee_name
                   = Or(probe.input.processed_files[k].payslip.name, UnknownName)
       /\ Len(probe.output.calls) <= Len(probe.input.processed_files)

InRange(page_index, source_page_count) == 0 <= page_index /\ page_index < source_page_count

Faulty(page) == page.fault # "none"

\* The document with a healthy page in place of every page that fails.
Healed(pages) ==
    [k \in 1..Len(pages) |-> IF Faulty(pages[k]) \/ CallFails(pages[k]) THEN HealthyPage ELSE pages[k]]

AllNull(result) ==
    /\ result.name = NoVal
    /\ result.employee_id = NoVal
    /\ result.email = NoVal
    /\ result.month = NoInt
    /\ result.year = NoInt

\* Not raised; one result per page in page order; the failing pages all
\* null, the others as in the healed document.
Isolated(pages, output) ==
    /\ ~output.raised
    /\ Len(output.results) = Len(pages)
    /\ \A k \in DOMAIN pages :
          /\ output.results[k].page_number = k - 1
          /\ (Faulty(pages[k]) \/ CallFails(pages[k])) => AllNull(output.results[k])
          /\ ~(Faulty(pages[k]) \/ CallFails(pages[k]))
                => output.results[k] = extract_with_vision(Healed(pages), NoCorrections).results[k]

\* C16 as stated: whichever pages fail (transport error, malformed JSON,
\* wrong top-level shape or page rendering), extract_with_vision does not
\* raise and returns one result per page in page order, all null for the
\* failing pages and for every other page what it would be had no page failed.
C16_Original ==
    probe.fn = "extract_with_vision" => Isolated(probe.input.pages, probe.output)

\* C16 as amended: the same for the failures of the per-page call (transport
\* error, malformed JSON, wrong top-level shape, a month or year that is no
\* number); a page that cannot be rendered makes extract_with_vision raise.
C16_CallFailuresIsolated ==
    probe.fn = "extract_with_vision"
    => IF \E k \in DOMAIN probe.input.pages : RenderFails(probe.input.pages[k])
       THEN probe.output.raised
       ELSE Isolated(probe.input.pages, probe.output)

C16_Witness ==
    /\ probe.fn = "extract_with_vision"
    /\ Len(probe.input.pages) = 3
    /\ probe.input.pages[2].fault = "transport"
    /\ probe.input.pages[1].fault = "none"
    /\ probe.input.pages[3].fault = "none"
    /\ ~probe.output.raised
    /\ AllNull(probe.output.results[2])
    /\ probe.output.results[1].name = Name2
    /\ probe.output.results[3].employee_id = Id1

\* C17 as stated: in every result of a parsed reply the identity number is
\* null or a string of digits only, and month and year are null or integers.
C17_Original ==
    probe.fn = "extract_with_vision"
    => \A k \in DOMAIN probe.output.results :
          /\ probe.output.results[k].employee_id = NoVal
                \/ isdigit(probe.output.results[k].employee_id)
          /\ probe.output.results[k].month = NoInt \/ probe.output.results[k].month \in Nat
          /\ probe.output.results[k].year = NoInt \/ probe.output.results[k].year \in Nat

\* C19 as stated: whatever the table, the overrides and the extracted
\* input, running the Correction Layer twice gives the field values that
\* running it once gives.
C19_Original ==
    probe.fn = "correction_layer" => probe.output.twice = probe.output.once

\* What the two passes are to leave in a field: the override if the page's
\* override names the field, else the table's right value if the value read
\* is a recorded wrong value, else the value read.
Adjusted(read, mapping, override, unnamed) ==
    IF override # unnamed THEN override
    ELSE IF read \in DOMAIN mapping THEN mapping[read]
    ELSE read

\* C20 as stated: after either extraction strategy the table pass has
\* substituted the right value for every field read as a recorded wrong
\* value, and the overrides were applied after it, so that an override wins.
C20_Original ==
    probe.fn = "extract"
    => \A i \in DOMAIN probe.output.payslips :
          LET read == probe.input.read.results[i]
              table == probe.input.corrections
              ov == probe.input.overrides[i]
              ps == probe.output.payslips[i]
          IN  /\ ps.name = Adjusted(read.name, table.name, ov.name, Absent)
              /\ ps.employee_id = Adjusted(read.employee_id, table.employee_id, ov.employee_id, Absent)
              /\ ps.email = Adjusted(read.email, table.email, ov.email, Absent)
              /\ ps.month = Adjusted(read.month, table.month, ov.month, NoInt)
              /\ ps.year = Adjusted(read.year, table.year, ov.year, NoInt)

\* The value a form field or an override leaves: the submitted value if
\* one was submitted, else the value the Record had.
Submitted(value, unnamed, before) == IF value # unnamed THEN value ELSE before

SubmittedNumber(text, before) == IF isdigit(text) THEN int(text) ELSE before

\* C21: the operator's corrections and the overrides keep the number and
\* order of the Records, every page_index and every raw_text; row i of the
\* form changes only the correctable fields of Record i, and the override
\* keyed k changes only the Record with page_index k - 1 and there only the
\* fields it names.
C21_CorrectionsFrame ==
    /\ probe.fn \in {"process_form", "api_overrides"}
       => /\ Len(probe.output.payslips) = Len(probe.input.payslips)
          /\ \A i \in DOMAIN probe.input.payslips :
                /\ probe.output.payslips[i].page_number = probe.input.payslips[i].page_number
                /\ probe.output.payslips[i].raw_text = probe.input.payslips[i].raw_text
    /\ probe.fn = "process_form"
       => \A i \in DOMAIN probe.input.payslips :
             LET before == probe.input.payslips[i]
                 after == probe.output.payslips[i]
                 row == probe.input.form[i]
             IN  /\ after.name = Submitted(row.name, Absent, before.name)
                 /\ after.employee_id = Submitted(row.employee_id, Absent, before.employee_id)
                 /\ after.email = Submitted(row.email, Absent, before.email)
                 /\ after.month = SubmittedNumber(row.month, before.month)
                 /\ after.year = SubmittedNumber(row.year, before.year)
    /\ probe.fn = "api_overrides"
       => \A i \in DOMAIN probe.input.payslips :
             LET before == probe.input.payslips[i]
                 after == probe.output.payslips[i]
                 key == before.page_number + 1
             IN  IF key \in DOMAIN probe.input.overrides
                 THEN LET ov == probe.input.overrides[key]
                      IN  /\ after.name = Submitted(ov.name, Absent, before.name)
                          /\ after.employee_id = Submitted(ov.employee_id, Absent, before.employee_id)
                          /\ after.email = Submitted(ov.email, Absent, before.email)
                          /\ after.month = Submitted(ov.month, NoInt, before.month)
                          /\ after.year = Submitted(ov.year, NoInt, before.year)
                 ELSE after = before

C21_Witness ==
    /\ probe.fn = "api_overrides"
    /\ Len(probe.input.payslips) = 2
    /\ DOMAIN probe.input.overrides = {2, 3}
    /\ probe.input.overrides[2].name = Name2
    /\ probe.input.overrides[2].email = Absent
    /\ probe.input.payslips[2].email = Email1
    /\ probe.output.payslips[2].name = Name2
    /\ probe.output.payslips[2].email = Email1
    /\ probe.output.payslips[1] = probe.input.payslips[1]

Lacks(ps, field) == IF field = "name" THEN ~Truthy(ps.name) ELSE ~Truthy(ps.employee_id)

\* C22: the error list of a failed validation has exactly one message for
\* each Record and required field (name, identity number) the Record lacks,
\* naming the Record's 1-based page, and no other message.
C22_OneErrorPerMissingField ==
    probe.fn = "process_form"
    => /\ \A i \in DOMAIN probe.output.payslips : \A field \in {"name", "employee_id"} :
             Cardinality({e \in DOMAIN probe.output.errors :
                             probe.output.errors[e]
                                = [page |-> probe.output.payslips[i].page_number + 1,
                                   missing |-> field]})
                = IF Lacks(probe.output.payslips[i], field) THEN 1 ELSE 0
       /\ \A e \in DOMAIN probe.output.errors :
             \E i \in DOMAIN probe.output.payslips :
                /\ probe.output.errors[e].page = probe.output.payslips[i].page_number + 1
                /\ Lacks(probe.output.payslips[i], probe.output.errors[e].missing)

C22_Witness ==
    /\ probe.fn = "process_form"
    /\ Len(probe.output.payslips) = 2
    /\ is_valid(probe.output.payslips[1])
    /\ Truthy(probe.output.payslips[1].email)
    /\ Truthy(probe.output.payslips[2].name)
    /\ ~Truthy(probe.output.payslips[2].employee_id)
    /\ probe.output.errors = <<[page |-> 2, missing |-> "employee_id"]>>

Separator == <<" ", "-", " ">>

NameOrPlaceholder(ps) ==
    IF Truthy(ps.name) THEN ps.name
    ELSE <<"e", "m", "p", "l", "o", "y", "e", "e", "_", "p", "a", "g", "e", "_">>
         \o Str(ps.page_number + 1)

\* C23: the display filename of a Record is the name, or the placeholder
\* built from the 1-based page number when the name is absent, followed by
\* the month name and the year when the month is in 1..12 and the year is
\* present, by the year alone when only the year is present, and by nothing
\* when neither is present.  Present means truthy: 0 counts as absent.
C23_DisplayFilename ==
    probe.fn = "filename"
    => LET ps == probe.input
       IN  /\ (ps.month \in 1..12 /\ TruthyInt(ps.year))
                => probe.output = NameOrPlaceholder(ps) \o Separator \o HEBREW_MONTHS[ps.month]
                                     \o <<" ">> \o Str(ps.year)
           /\ (~TruthyInt(ps.month) /\ TruthyInt(ps.year))
                => probe.output = NameOrPlaceholder(ps) \o Separator \o Str(ps.year)
           /\ (~TruthyInt(ps.month) /\ ~TruthyInt(ps.year))
                => probe.output = NameOrPlaceholder(ps)

C23_Witness ==
    /\ probe.fn = "filename"
    /\ probe.input.name = NoVal
    /\ probe.input.page_number = 1
    /\ probe.input.month = NoInt
    /\ probe.input.year = 2024
    /\ probe.output = <<"e", "m", "p", "l", "o", "y", "e", "e", "_", "p", "a", "g", "e", "_", "2",
                        " ", "-", " ", "2", "0", "2", "4">>

\* The month a candidate names: the number captured, or the number of the
\* month name captured (NoInt for a word that is no month name).
MonthOf(match) == IF isdigit(match.g1) THEN int(match.g1) ELSE hebrew_to_num(match.g1)

Accepted(match) ==
    /\ match # NoMatch
    /\ MonthOf(match) \in 1..12
    /\ int(match.g2) \in 1900..2100

C28_Original ==
    probe.fn = "send_one"
    => \A k \in DOMAIN probe.output.calls :
          LET ps == probe.input.processed_files[k].payslip
              period == probe.output.calls[k].period
          IN  IF TruthyInt(ps.month) /\ TruthyInt(ps.year)
              THEN /\ ps.month \in DOMAIN HEBREW_MONTHS
                   /\ period = HEBREW_MONTHS[ps.month] \o <<" ">> \o Str(ps.year)
              ELSE IF TruthyInt(ps.year) THEN period = Str(ps.year)
              ELSE period = UnknownPeriod

\* C29: every Delivery Record marked sent has a non-empty email and a
\* recorded artifact filename and path, whether the dispatcher or a retry
\* marked it.
C29_SentHasEmailAndArtifact ==
    \A r \in DOMAIN records :
        records[r].email_sent = 1
           => /\ Truthy(records[r].employee_email)
              /\ records[r].output_filename # NoVal
              /\ records[r].encrypted_path # NoPath

C29_Witness ==
    /\ response.op = "retry"
    /\ response.status = "sent"
    /\ \E r \in DOMAIN records :
          /\ r = response.ref
          /\ records[r].email_sent = 1
          /\ Truthy(records[r].employee_email)
    /\ \E r \in DOMAIN records :
          /\ records[r].email_sent = 0
          /\ ~Truthy(records[r].employee_email)
          /\ records[r].email_error = NoEmailError

\* C30: an upsert_employee on an identity number already in the directory
\* never erases its stored email: an entry whose email was non-empty
\* before a confirmation has a non-empty email after it.
C30_Original ==
    [][\A i \in DOMAIN employees :
          Truthy(employees[i].email) => Truthy(employees'[i].email)]_vars

FailedUploads ==
    UploadRejections \cup ApiRejections \cup {"extraction_error", "no_payslips"}

\* C24: an upload that does not succeed leaves no state behind: a rejected
\* input makes no working directory and no session; a failed or empty
\* extraction removes the working directory and registers no session; in
\* none of these cases is a batch or a Delivery Record created (so every
\* batch an upload opens is for a document with at least one page).
C24_Original ==
    [][/\ (/\ response' # response
           /\ response'.op \in {"upload", "api_upload"}
           /\ response'.status \in FailedUploads)
          => /\ sessions' = sessions
             /\ batches' = batches
             /\ records' = records
             /\ DOMAIN workdirs' \subseteq DOMAIN workdirs
             /\ response'.ref \notin DOMAIN workdirs'
       /\ \A b \in DOMAIN batches' \ DOMAIN batches : batches'[b].total_pages > 0]_vars

\* C25: the directory holds at most one entry per identity number, and
\* right after a Record with identity number and name has been confirmed
\* it holds an entry for that identity number with the confirmed name.
C25_OneEntryPerIdentity ==
    /\ \A i, j \in DOMAIN employees :
          employees[i].employee_id = employees[j].employee_id => i = j
    /\ probe.fn = "upsert_employee"
          => /\ probe.output \in DOMAIN employees
             /\ employees[probe.output].employee_id = probe.input.employee_id
             /\ employees[probe.output].name = probe.input.name

C25_Witness ==
    /\ probe.fn = "upsert_employee"
    /\ Len(employees) = 2
    /\ probe.output = 1
    /\ probe.input.name = Name2
    /\ employees[1] = EmployeeRow(Id2, Name2, Email1)
    /\ employees[2].employee_id = Id1

\* C26: the previews of a session are made in one pass of upload, after the
\* extractor has closed the source document and before the session is
\* registered; page_preview requests read cached images only, so however
\* they interleave the source document has at most one reader.
C26_SourceHasOneReader ==
    \A d \in DOMAIN workdirs :
        /\ workdirs[d].readers <= 1
        /\ workdirs[d].stage \in {"saved", "extracting", "extracted"} => workdirs[d].cached = 0
        /\ workdirs[d].stage = "rendering" => (workdirs[d].readers = 1 /\ d \notin DOMAIN sessions)
        /\ d \in DOMAIN sessions
              => (workdirs[d].stage = "registered" /\ workdirs[d].readers = 0)
        /\ workdirs[d].serving # <<>> => d \in DOMAIN sessions

C26_Witness ==
    \E d \in DOMAIN workdirs :
        /\ d \in DOMAIN sessions
        /\ workdirs[d].pages = 2
        /\ workdirs[d].cached = 2
        /\ workdirs[d].serving = <<0, 0>>
        /\ workdirs[d].readers = 0

Settled(status) == status \in {"completed", "failed"}

\* C31: a batch is created with status processing and its status changes
\* at most once, to completed or to failed: whatever operation runs, no
\* batch is removed, a batch that is completed or failed keeps its status,
\* and a batch never has a status other than these three.
C31_StatusSettlesOnce ==
    [][/\ DOMAIN batches \subseteq DOMAIN batches'
       /\ \A b \in DOMAIN batches :
             /\ Settled(batches[b].status) => batches'[b].status = batches[b].status
             /\ batches'[b].status # batches[b].status
                   => (batches[b].status = "processing" /\ Settled(batches'[b].status))
       /\ \A b \in DOMAIN batches' :
             batches'[b].status = "processing" \/ Settled(batches'[b].status)]_vars

C31_Witness ==
    /\ Len(batches) = 2
    /\ batches[1].status = "failed"
    /\ batches[2].status = "completed"
    /\ response.op \in {"process", "api_upload"}
    /\ response.status = "completed"

\* C32: an explicit retry composes its message with the period string the
\* dispatcher builds for the same month and year, whatever they are, a
\* year without a month included.
C32_Original ==
    probe.fn = "retry_email" => probe.output.retry.period = probe.output.dispatch.period

====
